---- MODULE Spec2Model ----
(***************************************************************************)
(* A model of vgc_bench/scrape_teams.py: the team-scraping pipeline that   *)
(* reads the featured-team sheets of one regulation, resolves every row's  *)
(* paste to its team text, filters and de-duplicates the teams and writes  *)
(* the survivors to data/teams/reg<x>/<event>/<placement>.txt.             *)
(*                                                                         *)
(* Python strings are TLA+ strings; a character is a string of length 1.   *)
(* The pure functions of the module are operators computed character by   *)
(* character as the code computes them; scrape_regulation is the state     *)
(* machine StartRun / FetchSheet / ProcessRow / PrintSummary.              *)
(***************************************************************************)
EXTENDS Integers, Sequences, FiniteSets, TLC

(***************************************************************************)
(* Python string primitives                                                *)
(***************************************************************************)

\* Characters a..b of s (1-based, inclusive), clamped to the string like a
\* Python slice: out-of-range positions yield no characters.
Slice(s, a, b) ==
    LET lo == IF a < 1 THEN 1 ELSE a
        hi == IF b > Len(s) THEN Len(s) ELSE b
    IN IF lo > hi THEN "" ELSE SubSeq(s, lo, hi)

Char(s, i) == IF i < 1 \/ i > Len(s) THEN "" ELSE SubSeq(s, i, i)

UpperLetters == "ABCDEFGHIJKLMNOPQRSTUVWXYZ"

LowerLetters == "abcdefghijklmnopqrstuvwxyz"

Digits == "0123456789"

IsIn(c, alphabet) == \E k \in 1..Len(alphabet) : Char(alphabet, k) = c

\* str.isspace() for one character (the whitespace the model's inputs use)
IsSpace(c) == c \in {" ", "\t", "\n", "\r", "\f"}

IsDigit(c) == Len(c) = 1 /\ IsIn(c, Digits)

\* The non-ASCII letters of the model's inputs and their NFKD base letter.
Accented == "éó"

AccentBase == "eo"

\* U+00B4 stands for the combining mark NFKD splits off an accented letter.
CombiningMark == "´"

IsAscii(c) == c \notin {Char(Accented, k) : k \in 1..Len(Accented)} \cup {CombiningMark}

\* \w of a str pattern: Unicode letters, digits and the underscore
IsWord(c) ==
    Len(c) = 1 /\ (IsIn(c, UpperLetters) \/ IsIn(c, LowerLetters) \/ IsIn(c, Digits)
                   \/ c = "_" \/ IsIn(c, Accented))

LowerChar(c) ==
    IF IsIn(c, UpperLetters)
    THEN Char(LowerLetters, CHOOSE k \in 1..26 : Char(UpperLetters, k) = c)
    ELSE c

\* Apply a per-character map (a character to a string) to a whole string.
MapChars(s, F(_)) ==
    LET f[i \in 1..(Len(s) + 1)] == IF i > Len(s) THEN "" ELSE F(Char(s, i)) \o f[i + 1]
    IN f[1]

Lower(s) == MapChars(s, LowerChar)

\* str.strip(): first and last non-whitespace positions
Strip(s) ==
    LET keep == {i \in 1..Len(s) : ~IsSpace(Char(s, i))}
    IN IF keep = {} THEN ""
       ELSE Slice(s, CHOOSE i \in keep : \A j \in keep : i <= j,
                      CHOOSE i \in keep : \A j \in keep : i >= j)

RStrip(s) ==
    LET keep == {i \in 1..Len(s) : ~IsSpace(Char(s, i))}
    IN IF keep = {} THEN ""
       ELSE Slice(s, 1, CHOOSE i \in keep : \A j \in keep : i >= j)

\* str.strip(chars) for a single character
StripChar(s, c) ==
    LET keep == {i \in 1..Len(s) : Char(s, i) # c}
    IN IF keep = {} THEN ""
       ELSE Slice(s, CHOOSE i \in keep : \A j \in keep : i <= j,
                      CHOOSE i \in keep : \A j \in keep : i >= j)

StartsWithAt(s, i, prefix) == Slice(s, i, i + Len(prefix) - 1) = prefix

StartsWith(s, prefix) == StartsWithAt(s, 1, prefix)

\* Python's "sub in s"
Contains(s, sub) == \E i \in 1..(Len(s) + 1) : StartsWithAt(s, i, sub)

\* \b before position i (between characters i-1 and i)
WordBoundary(s, i) ==
    LET before == i > 1 /\ i - 1 <= Len(s) /\ IsWord(Char(s, i - 1))
        after == i >= 1 /\ i <= Len(s) /\ IsWord(Char(s, i))
    IN before # after

\* The position after the maximal run of whitespace that starts at i.
SkipSpaces(s, i) ==
    LET stop == {j \in i..Len(s) : ~IsSpace(Char(s, j))}
    IN IF stop = {} THEN Len(s) + 1 ELSE CHOOSE j \in stop : \A k \in stop : j <= k

\* re.sub(pattern, repl, s) for a pattern that matches no empty string:
\* M(s, i) is the position after the match that starts at i, or 0.
ReSub(s, M(_, _), repl) ==
    LET f[i \in 1..(Len(s) + 1)] ==
            IF i > Len(s) THEN ""
            ELSE IF M(s, i) > 0 THEN repl \o f[M(s, i)]
                 ELSE Char(s, i) \o f[i + 1]
    IN f[1]

\* re.search: the least position where the pattern matches, or 0.
ReSearch(s, M(_, _)) ==
    LET hits == {i \in 1..(Len(s) + 1) : M(s, i) > 0}
    IN IF hits = {} THEN 0 ELSE CHOOSE i \in hits : \A j \in hits : i <= j

(***************************************************************************)
(* slugify, normalize_event_name, placement_to_filename                    *)
(***************************************************************************)

\* unicodedata.normalize("NFKD", c) for one character
NFKDChar(c) ==
    IF IsIn(c, Accented)
    THEN Char(AccentBase, CHOOSE k \in 1..Len(Accented) : Char(Accented, k) = c)
         \o CombiningMark
    ELSE c

\* c.encode("ascii", "ignore").decode("ascii") for one character
AsciiIgnoreChar(c) == IF IsAscii(c) THEN c ELSE ""

IsSlugChar(c) == Len(c) = 1 /\ (IsIn(c, LowerLetters) \/ IsIn(c, Digits))

\* [^a-z0-9]+ at position i
MatchNonSlugRun(s, i) ==
    IF i > Len(s) \/ IsSlugChar(Char(s, i)) THEN 0
    ELSE LET stop == {j \in i..Len(s) : IsSlugChar(Char(s, j))}
         IN IF stop = {} THEN Len(s) + 1 ELSE CHOOSE j \in stop : \A k \in stop : j <= k

\* _+ at position i
MatchUnderscoreRun(s, i) ==
    IF i > Len(s) \/ Char(s, i) # "_" THEN 0
    ELSE LET stop == {j \in i..Len(s) : Char(s, j) # "_"}
         IN IF stop = {} THEN Len(s) + 1 ELSE CHOOSE j \in stop : \A k \in stop : j <= k

slugify(text) ==
    LET nfkd == MapChars(text, NFKDChar)
        ascii == MapChars(nfkd, AsciiIgnoreChar)
        lowered == Lower(ascii)
        under == ReSub(lowered, MatchNonSlugRun, "_")
    IN StripChar(ReSub(under, MatchUnderscoreRun, "_"), "_")

\* \bregional\s+championships?\b, ignoring case
MatchRegionalChampionships(s, i) ==
    IF ~(WordBoundary(s, i) /\ Lower(Slice(s, i, i + 7)) = "regional") THEN 0
    ELSE LET k == SkipSpaces(s, i + 8)
             m == k + 12
         IN IF k = i + 8 \/ Lower(Slice(s, k, k + 11)) # "championship" THEN 0
            ELSE IF Lower(Char(s, m)) = "s" /\ WordBoundary(s, m + 1) THEN m + 1
            ELSE IF WordBoundary(s, m) THEN m
            ELSE 0

\* \bregionals?\b, ignoring case
MatchRegionals(s, i) ==
    IF ~(WordBoundary(s, i) /\ Lower(Slice(s, i, i + 7)) = "regional") THEN 0
    ELSE IF Lower(Char(s, i + 8)) = "s" /\ WordBoundary(s, i + 9) THEN i + 9
    ELSE IF WordBoundary(s, i + 8) THEN i + 8
    ELSE 0

\* \s+ at position i
MatchSpaceRun(s, i) ==
    IF i > Len(s) \/ ~IsSpace(Char(s, i)) THEN 0 ELSE SkipSpaces(s, i)

normalize_event_name(event_name) ==
    LET name0 == Strip(event_name)
        name1 == ReSub(name0, MatchRegionalChampionships, "")
        name2 == ReSub(name1, MatchRegionals, "")
    IN Strip(ReSub(name2, MatchSpaceRun, " "))

\* A variant of placement_to_filename without the fallback of line 75.
placement_to_filename_no_fallback(placement) ==
    LET normalized == slugify(Strip(placement))
    IN IF normalized \in {"champion", "winner"} THEN "1st"
       ELSE IF normalized \in {"runner_up"} THEN "2nd"
       ELSE normalized

placement_to_filename(placement) ==
    LET normalized == slugify(Strip(placement))
    IN IF normalized \in {"champion", "winner"} THEN "1st"
       ELSE IF normalized \in {"runner_up"} THEN "2nd"
       ELSE IF normalized # "" THEN normalized
       ELSE "unknown_placement"

(***************************************************************************)
(* parse_event_date: datetime.strptime over the six formats, then the      *)
(* embedded-date scan.  A format is a sequence of directives; a blank in   *)
(* a format matches \s+ as strptime compiles it.                           *)
(***************************************************************************)

MonthAbbr ==
    <<"jan", "feb", "mar", "apr", "may", "jun", "jul", "aug", "sep", "oct", "nov", "dec">>

MonthFull ==
    <<"january", "february", "march", "april", "may", "june", "july", "august",
      "september", "october", "november", "december">>

DigitVal(c) == (CHOOSE k \in 1..Len(Digits) : Char(Digits, k) = c) - 1

\* int(s) for a string of decimal digits
StrToInt(s) ==
    LET f[i \in 0..Len(s)] == IF i = 0 THEN 0 ELSE 10 * f[i - 1] + DigitVal(Char(s, i))
    IN f[Len(s)]

\* str(n) for a natural number
IntToStr(n) ==
    LET f[k \in 0..n] == IF k < 10 THEN Char(Digits, k + 1)
                         ELSE f[k \div 10] \o Char(Digits, (k % 10) + 1)
    IN f[n]

AllDigits(s, a, b) == b <= Len(s) /\ \A j \in a..b : IsDigit(Char(s, j))

IsLeap(year) == (year % 4 = 0 /\ year % 100 # 0) \/ year % 400 = 0

DaysInMonth(year, month) ==
    IF month = 2 THEN (IF IsLeap(year) THEN 29 ELSE 28)
    ELSE IF month \in {4, 6, 9, 11} THEN 30 ELSE 31

NoDate == [ok |-> FALSE, year |-> 0, month |-> 0, day |-> 0]

\* %d: 3[0-1]|[1-2]\d|0[1-9]|[1-9]| [1-9]
MatchDay(s, i) ==
    LET c1 == Char(s, i)
        c2 == Char(s, i + 1)
        nonzero(c) == IsDigit(c) /\ c # "0"
    IN IF c1 = "3" /\ c2 \in {"0", "1"} THEN i + 2
       ELSE IF c1 \in {"1", "2"} /\ IsDigit(c2) THEN i + 2
       ELSE IF c1 = "0" /\ nonzero(c2) THEN i + 2
       ELSE IF nonzero(c1) THEN i + 1
       ELSE IF c1 = " " /\ nonzero(c2) THEN i + 2
       ELSE 0

\* %b / %B: the month whose name starts at i (case ignored), or 0
MatchMonth(s, i, names) ==
    LET hits == {m \in 1..Len(names) : Lower(Slice(s, i, i + Len(names[m]) - 1)) = names[m]}
    IN IF hits = {} THEN 0 ELSE CHOOSE m \in hits : TRUE

RECURSIVE StrptimeFrom(_, _, _, _, _)
StrptimeFrom(s, fmt, k, i, acc) ==
    IF k > Len(fmt)
    THEN IF i = Len(s) + 1 /\ acc.year >= 1 /\ acc.day <= DaysInMonth(acc.year, acc.month)
         THEN acc ELSE NoDate
    ELSE IF fmt[k] = "%d"
    THEN LET e == MatchDay(s, i)
         IN IF e = 0 THEN NoDate
            ELSE StrptimeFrom(s, fmt, k + 1, e,
                              [acc EXCEPT !.day = StrToInt(Strip(Slice(s, i, e - 1)))])
    ELSE IF fmt[k] \in {"%b", "%B"}
    THEN LET names == IF fmt[k] = "%b" THEN MonthAbbr ELSE MonthFull
             m == MatchMonth(s, i, names)
         IN IF m = 0 THEN NoDate
            ELSE StrptimeFrom(s, fmt, k + 1, i + Len(names[m]), [acc EXCEPT !.month = m])
    ELSE IF fmt[k] = "%Y"
    THEN IF ~AllDigits(s, i, i + 3) THEN NoDate
         ELSE StrptimeFrom(s, fmt, k + 1, i + 4,
                           [acc EXCEPT !.year = StrToInt(Slice(s, i, i + 3))])
    ELSE IF fmt[k] = " "
    THEN IF MatchSpaceRun(s, i) = 0 THEN NoDate
         ELSE StrptimeFrom(s, fmt, k + 1, MatchSpaceRun(s, i), acc)
    ELSE IF Char(s, i) = fmt[k] THEN StrptimeFrom(s, fmt, k + 1, i + 1, acc)
    ELSE NoDate

\* datetime.strptime(s, fmt); NoDate stands for the ValueError
strptime(s, fmt) ==
    StrptimeFrom(s, fmt, 1, 1, [ok |-> TRUE, year |-> 1900, month |-> 1, day |-> 1])

DateFormats ==
    << <<"%d", " ", "%b", " ", "%Y">>, <<"%d", " ", "%B", " ", "%Y">>,
       <<"%d", " ", "%b", ",", " ", "%Y">>, <<"%d", " ", "%B", ",", " ", "%Y">>,
       <<"%b", " ", "%Y">>, <<"%B", " ", "%Y">> >>

\* The first format of fmts that parses s, in order; NoDate when none does.
FirstParse(s, fmts) ==
    LET ok == {k \in 1..Len(fmts) : strptime(s, fmts[k]).ok}
    IN IF ok = {} THEN NoDate
       ELSE strptime(s, fmts[CHOOSE k \in ok : \A j \in ok : k <= j])

MatchSept(s, i) == IF StartsWithAt(s, i, "Sept") THEN i + 4 ELSE 0

IsAsciiLetter(c) == Len(c) = 1 /\ (IsIn(c, UpperLetters) \/ IsIn(c, LowerLetters))

\* \b(\d{1,2}\s+[A-Za-z]{3,9}\s+\d{4})\b at position i
MatchEmbeddedDate(s, i) ==
    IF ~(WordBoundary(s, i) /\ IsDigit(Char(s, i))) THEN 0
    ELSE LET p == IF IsDigit(Char(s, i + 1)) THEN i + 2 ELSE i + 1
             q == SkipSpaces(s, p)
             stop == {j \in q..(Len(s) + 1) : ~IsAsciiLetter(Char(s, j))}
             r == CHOOSE j \in stop : \A k \in stop : j <= k
             y == SkipSpaces(s, r)
         IN IF /\ q > p
               /\ r - q >= 3 /\ r - q <= 9
               /\ y > r
               /\ AllDigits(s, y, y + 3)
               /\ WordBoundary(s, y + 4)
            THEN y + 4 ELSE 0

parse_event_date(date_str) ==
    LET d == ReSub(Strip(date_str), MatchSept, "Sep")
        direct == FirstParse(d, DateFormats)
        at == ReSearch(d, MatchEmbeddedDate)
    IN IF d = "" THEN NoDate
       ELSE IF direct.ok THEN direct
       ELSE IF at # 0
       THEN FirstParse(Slice(d, at, MatchEmbeddedDate(d, at) - 1),
                       <<DateFormats[1], DateFormats[2]>>)
       ELSE NoDate

(***************************************************************************)
(* event_dir_name, event_key                                               *)
(***************************************************************************)

\* \b\d{4}\b at position i
MatchYearToken(s, i) ==
    IF WordBoundary(s, i) /\ AllDigits(s, i, i + 3) /\ WordBoundary(s, i + 4)
    THEN i + 4 ELSE 0

\* \b(20\d{2})\b at position i
MatchYear20(s, i) ==
    IF MatchYearToken(s, i) # 0 /\ StartsWithAt(s, i, "20") THEN i + 4 ELSE 0

event_dir_name(event_name, date_str) ==
    LET normalized_name == Strip(ReSub(normalize_event_name(event_name), MatchYearToken, ""))
        base == IF slugify(normalized_name) # "" THEN slugify(normalized_name)
                ELSE IF slugify(normalize_event_name(event_name)) # ""
                THEN slugify(normalize_event_name(event_name))
                ELSE "event"
        year_match == ReSearch(event_name, MatchYear20)
        dt == parse_event_date(date_str)
    IN IF year_match # 0 THEN base \o "_" \o Slice(event_name, year_match, year_match + 3)
       ELSE IF dt.ok THEN base \o "_" \o IntToStr(dt.year)
       ELSE base

event_key(event_name, date_str) ==
    LET normalized_name == Strip(ReSub(normalize_event_name(event_name), MatchYearToken, ""))
        base == IF slugify(normalized_name) # "" THEN slugify(normalized_name)
                ELSE IF slugify(normalize_event_name(event_name)) # ""
                THEN slugify(normalize_event_name(event_name))
                ELSE "event"
        year_match == ReSearch(event_name, MatchYear20)
        dt == parse_event_date(date_str)
    IN IF year_match # 0 THEN base \o "_" \o Slice(event_name, year_match, year_match + 3)
       ELSE IF dt.ok THEN base \o "_" \o IntToStr(dt.year)
       ELSE base

(***************************************************************************)
(* Sheet discovery                                                         *)
(***************************************************************************)

UpperChar(c) ==
    IF IsIn(c, LowerLetters)
    THEN Char(UpperLetters, CHOOSE k \in 1..26 : Char(LowerLetters, k) = c)
    ELSE c

Upper(s) == MapChars(s, UpperChar)

\* fetch_sheet_names, from the captions re.findall returns: the names in
\* first-seen order, each once
unique_names(names) ==
    LET f[k \in 0..Len(names)] ==
            IF k = 0 THEN <<>>
            ELSE IF \E j \in 1..(k - 1) : names[j] = names[k] THEN f[k - 1]
                 ELSE Append(f[k - 1], names[k])
    IN f[Len(names)]

featured_team_sheets_for_regulation(all_sheet_names, regulation) ==
    LET reg == Lower(Strip(regulation))
        matches(name) ==
            LET lname == Lower(name)
            IN /\ Contains(lname, "featured")
               /\ ~Contains(lname, "presentable")
               /\ (Contains(lname, "reg " \o reg) \/ Contains(lname, "regulation " \o reg))
        f[k \in 0..Len(all_sheet_names)] ==
            IF k = 0 THEN <<>>
            ELSE IF matches(all_sheet_names[k]) THEN Append(f[k - 1], all_sheet_names[k])
                 ELSE f[k - 1]
        sheets == f[Len(all_sheet_names)]
    IN IF sheets = <<>> THEN <<"Reg " \o Upper(regulation) \o " Featured Teams">>
       ELSE sheets

(***************************************************************************)
(* Team text: normalize_team_text, has_banned_move_or_ability              *)
(***************************************************************************)

IsLineBreak(c) == c \in {"\n", "\r", "\f"}

\* str.splitlines()
RECURSIVE SplitLinesFrom(_, _)
SplitLinesFrom(s, i) ==
    IF i > Len(s) THEN <<>>
    ELSE LET stops == {j \in i..Len(s) : IsLineBreak(Char(s, j))}
         IN IF stops = {} THEN <<Slice(s, i, Len(s))>>
            ELSE LET j == CHOOSE a \in stops : \A b \in stops : a <= b
                     next == IF Char(s, j) = "\r" /\ Char(s, j + 1) = "\n" THEN j + 2
                             ELSE j + 1
                 IN <<Slice(s, i, j - 1)>> \o SplitLinesFrom(s, next)

SplitLines(s) == SplitLinesFrom(s, 1)

\* sep.join(parts)
Join(parts, sep) ==
    LET f[k \in 0..Len(parts)] ==
            IF k = 0 THEN ""
            ELSE IF k = 1 THEN parts[1]
            ELSE f[k - 1] \o sep \o parts[k]
    IN f[Len(parts)]

\* The lines with the leading and the trailing empty lines popped.
TrimEmptyLines(lines) ==
    LET keep == {k \in 1..Len(lines) : lines[k] # ""}
    IN IF keep = {} THEN <<>>
       ELSE SubSeq(lines, CHOOSE a \in keep : \A b \in keep : a <= b,
                          CHOOSE a \in keep : \A b \in keep : a >= b)

\* The blocks of non-empty lines that empty lines separate.
RECURSIVE BlocksFrom(_, _, _)
BlocksFrom(lines, k, block) ==
    LET flush == IF block # <<>> THEN <<block>> ELSE <<>>
    IN IF k > Len(lines) THEN flush
       ELSE IF lines[k] = "" THEN flush \o BlocksFrom(lines, k + 1, <<>>)
       ELSE BlocksFrom(lines, k + 1, Append(block, lines[k]))

\* \bCalyrex-Ice\b at position i, ignoring case
MatchCalyrexIce(s, i) ==
    IF /\ WordBoundary(s, i)
       /\ Lower(Slice(s, i, i + 10)) = "calyrex-ice"
       /\ WordBoundary(s, i + 11)
    THEN i + 11 ELSE 0

\* ^(\s*Ability:\s*) of re.match on one line: the position after group 1, or 0
MatchAbilityPrefix(line) ==
    LET a == SkipSpaces(line, 1)
    IN IF Lower(Slice(line, a, a + 7)) = "ability:" THEN SkipSpaces(line, a + 8) ELSE 0

DropNonSlugChar(c) == IF IsSlugChar(c) THEN c ELSE ""

\* One line of a block, with an "As One" ability disambiguated.
NormalizeLine(line, asone) ==
    LET e == MatchAbilityPrefix(line)
        ability_value == RStrip(Slice(line, e, Len(line)))
        ability_norm == MapChars(Lower(ability_value), DropNonSlugChar)
    IN IF e # 0 /\ ability_norm = "asone" THEN Slice(line, 1, e - 1) \o asone ELSE line

NormalizeBlock(block) ==
    LET header == block[1]
        asone == IF ReSearch(header, MatchCalyrexIce) # 0 THEN "As One (Glastrier)"
                 ELSE "As One (Spectrier)"
    IN Join([k \in 1..Len(block) |-> NormalizeLine(block[k], asone)], "\n")

normalize_team_text(team_text) ==
    LET raw == SplitLines(team_text)
        lines == TrimEmptyLines([k \in 1..Len(raw) |-> RStrip(raw[k])])
        blocks == BlocksFrom(lines, 1, <<>>)
    IN Join([k \in 1..Len(blocks) |-> NormalizeBlock(blocks[k])], "\n\n") \o "\n"

\* ^\s*Ability:\s*<name>\s*$ at position i, ignoring case, in MULTILINE mode
MatchAbilityLine(s, i, name) ==
    LET a == SkipSpaces(s, i)
        b == SkipSpaces(s, a + 8)
        e == b + Len(name)
    IN IF /\ (i = 1 \/ Char(s, i - 1) = "\n")
          /\ Lower(Slice(s, a, a + 7)) = "ability:"
          /\ Lower(Slice(s, b, e - 1)) = name
          /\ \E p \in e..(Len(s) + 1) :
                /\ \A j \in e..(p - 1) : IsSpace(Char(s, j))
                /\ (p = Len(s) + 1 \/ Char(s, p) = "\n")
       THEN e ELSE 0

MatchIllusion(s, i) == MatchAbilityLine(s, i, "illusion")

MatchCommander(s, i) == MatchAbilityLine(s, i, "commander")

has_banned_move_or_ability(team_text) ==
    IF ReSearch(team_text, MatchIllusion) # 0 THEN TRUE
    ELSE IF ReSearch(team_text, MatchCommander) # 0 THEN TRUE
    ELSE FALSE

(***************************************************************************)
(* The world outside the process: the paste service, the team-format       *)
(* validator and the similarity scorer                                     *)
(***************************************************************************)

\* The pastes pokepast.es serves, by paste id: the same for every run.
PasteStore ==
    [aaa |-> "\nCalyrex-Ice @ Seed  \nAbility: As One\n\n\nPikachu\nAbility: Static\n\n",
     aab |-> "Calyrex-Ice @ Seed\nAbility: As One (Glastrier)\n\nPikachu\nAbility: Static",
     ccc |-> "Dondozo\r\nAbility: Unaware\r\n",
     bbb |-> "Zoroark\nAbility:  illusion \n",
     ddd |-> "Tatsugiri\n  ability: COMMANDER\n\nDondozo\nAbility: Unaware\n",
     eee |-> "Miraidon\nAbility: Hadron Engine\n"]

\* calc_team_similarity_score == 1.0: the score of an exact match
MaxScore == 100

\* The scores the scorer may report: the maximum and one below it.
Scores == {50, MaxScore}

\* calc_team_similarity_score(a, b): a pure function of the two texts.  A
\* text scores the maximum against itself; the score of two different
\* texts is the scorer's, fixed once asked (score_memo) and otherwise the
\* answer fresh gives.
calc_team_similarity_score(memo, fresh, a, b) ==
    IF a = b THEN MaxScore
    ELSE IF <<a, b>> \in DOMAIN memo THEN memo[<<a, b>>]
    ELSE fresh[b]

\* Teambuilder.parse_showdown_team(text): TRUE when it returns, FALSE when
\* it raises KeyError; a pure function of the text, fixed once asked.
parse_showdown_team(memo, fresh, text) ==
    IF text \in DOMAIN memo THEN memo[text] ELSE fresh

(***************************************************************************)
(* scrape_regulation: one row of one sheet                                 *)
(***************************************************************************)

Regulation == "G"

\* reg_dir = Path("data") / "teams" / f"reg{regulation.lower()}"
reg_dir == "data/teams/reg" \o Lower(Regulation)

\* Path / name
PathJoin(dir, name) == dir \o "/" \o name

Max(S) == CHOOSE a \in S : \A b \in S : a >= b

Last(seq) == seq[Len(seq)]

\* header.index(name), 1-based; 0 stands for the ValueError
HeaderIndex(header, name) ==
    LET at == {k \in 1..Len(header) : header[k] = name}
    IN IF at = {} THEN 0 ELSE CHOOSE k \in at : \A j \in at : k <= j

\* The header scan of line 353: the first row whose first cell is "Team ID"
\* and which holds a cell "Pokepaste"; 0 stands for the StopIteration.
header_row_idx(sheet) ==
    LET at == {i \in 1..Len(sheet) :
                  /\ sheet[i] # <<>>
                  /\ Strip(sheet[i][1]) = "Team ID"
                  /\ \E k \in 1..Len(sheet[i]) : sheet[i][k] = "Pokepaste"}
    IN IF at = {} THEN 0 ELSE CHOOSE i \in at : \A j \in at : i <= j

\* The column positions of lines 359-364 (1-based; 0: a name is missing).
column_indices(header) ==
    LET event_idx == HeaderIndex(header, "Tournament / Event")
    IN [category |-> HeaderIndex(header, "Category"),
        evs |-> HeaderIndex(header, "EVs"),
        pokepaste |-> HeaderIndex(header, "Pokepaste"),
        event |-> event_idx,
        rank |-> HeaderIndex(header, "Rank"),
        date |-> IF HeaderIndex(header, "Date") # 0 THEN HeaderIndex(header, "Date")
                 ELSE event_idx - 1]

RequiredColumns == {"category", "evs", "pokepaste", "event", "rank"}

\* paste_id = pokepaste_url.rstrip("/").split("/")[-1]
paste_id(pokepaste_url) ==
    LET keep == {i \in 1..Len(pokepaste_url) : Char(pokepaste_url, i) # "/"}
        url == IF keep = {} THEN "" ELSE Slice(pokepaste_url, 1, Max(keep))
        slashes == {i \in 1..Len(url) : Char(url, i) = "/"}
    IN IF slashes = {} THEN url ELSE Slice(url, Max(slashes) + 1, Len(url))

\* What pokepast.es answers a request for the paste of pokepaste_url when
\* the transport works: no such paste (raise_for_status raises), or the
\* paste's text, which fetch_pokepaste_raw returns normalized.
paste_response(pokepaste_url) ==
    LET id == paste_id(pokepaste_url)
    IN IF id \in DOMAIN PasteStore
       THEN [ok |-> TRUE, text |-> normalize_team_text(PasteStore[id])]
       ELSE [ok |-> FALSE, text |-> ""]

allowed_events == {"regional", "euic", "laic", "naic", "worlds"}

\* What lines 366-411 compute from the row alone (and, for a row whose paste
\* is fetched, from the paste): the cells read, the tests on them and the
\* names derived from them.  A row too short has no cell read.
row_facts(idx, row) ==
    LET short == Len(row) < Max({idx[c] : c \in DOMAIN idx})
        cell(c) == IF short THEN "" ELSE Strip(row[c])
        pokepaste == cell(idx.pokepaste)
        event_name == cell(idx.event)
        event_lower == Lower(event_name)
        date_str == cell(idx.date)
        placement == cell(idx.rank)
        base_filename == placement_to_filename(placement)
        response == paste_response(pokepaste)
    IN [short |-> short,
        category |-> Lower(cell(idx.category)),
        evs |-> Lower(cell(idx.evs)),
        pokepaste |-> pokepaste,
        is_paste_url |-> StartsWith(pokepaste, "https://pokepast.es/"),
        paste_id |-> paste_id(pokepaste),
        response |-> response,
        banned |-> has_banned_move_or_ability(response.text),
        event_allowed |-> \E kw \in allowed_events : Contains(event_lower, kw),
        event_division |-> Contains(event_lower, "seniors") \/ Contains(event_lower, "juniors"),
        event_joined |-> Contains(event_name, "&"),
        placement_division |-> Contains(placement, "juniors") \/ Contains(placement, "seniors"),
        key |-> event_key(event_name, date_str),
        dir_name |-> event_dir_name(event_name, date_str),
        base_filename |-> base_filename,
        numeric |-> IsDigit(Char(base_filename, 1))]

\* A variant of fetch_pokepaste_raw that swallows a failed transport.
fetch_pokepaste_raw_lenient(transport_ok, response) == response

\* fetch_pokepaste_raw: the request fails when the transport does or when
\* the service has no such paste; nothing is retried.
fetch_pokepaste_raw(transport_ok, response) ==
    IF transport_ok /\ response.ok THEN response ELSE [ok |-> FALSE, text |-> ""]

\* A variant of path_exists that never finds the file.
path_exists_never(fs, out_path) == FALSE

\* out_path.exists()
path_exists(fs, out_path) == out_path \in DOMAIN fs

\* A variant of write_file that leaves the disk as it is.
write_file_nothing(fs, out_path, team_text) == fs

\* with open(out_path, "w") as f: f.write(team_text)
write_file(fs, out_path, team_text) ==
    [q \in DOMAIN fs \cup {out_path} |-> IF q = out_path THEN team_text ELSE fs[q]]

\* A variant of is_duplicate that compares with the last accepted text only.
is_duplicate_last_only(memo, fresh, team_text, seen_teams) ==
    /\ seen_teams # <<>>
    /\ calc_team_similarity_score(memo, fresh, team_text, Last(seen_teams)) = MaxScore

\* any(calc_team_similarity_score(team_text, prev) == 1.0 for prev in seen_teams)
is_duplicate(memo, fresh, team_text, seen_teams) ==
    \E k \in 1..Len(seen_teams) :
        calc_team_similarity_score(memo, fresh, team_text, seen_teams[k]) = MaxScore

\* The pairs the generator of line 386 hands to the scorer: any() stops at
\* the first exact match.
scored_pairs(memo, fresh, team_text, seen_teams) ==
    LET hits == {k \in 1..Len(seen_teams) :
                    calc_team_similarity_score(memo, fresh, team_text, seen_teams[k]) = MaxScore}
        upto == IF hits = {} THEN Len(seen_teams)
                ELSE CHOOSE k \in hits : \A j \in hits : k <= j
    IN {<<team_text, seen_teams[k]>> : k \in 1..upto}

\* The row is left by a continue: only the log of the run records it.
Skip(w, outcome) == [w EXCEPT !.log = Append(@, [outcome |-> outcome, path |-> ""])]

\* Lines 406-410: the event's directory, resolved once per key and created.
make_event_subdir(w, f) ==
    LET subdirs == IF f.key \in DOMAIN w.loop.event_subdirs THEN w.loop.event_subdirs
                   ELSE [q \in DOMAIN w.loop.event_subdirs \cup {f.key} |->
                            IF q = f.key THEN PathJoin(reg_dir, f.dir_name)
                            ELSE w.loop.event_subdirs[q]]
    IN [w EXCEPT !.loop.event_subdirs = subdirs, !.dirs = @ \cup {subdirs[f.key]}]

\* A variant of save_team that writes whether or not the file exists.
save_team_overwrite(w, f, team_text) ==
    LET out_path == PathJoin(w.loop.event_subdirs[f.key], f.base_filename \o ".txt")
    IN IF f.base_filename = "" THEN [w EXCEPT !.error = "IndexError"]
       ELSE IF ~f.numeric THEN Skip(w, "non_numeric")
       ELSE [w EXCEPT !.files = write_file(w.files, out_path, team_text),
                      !.loop.saved = @ + 1,
                      !.log = Append(@, [outcome |-> "saved", path |-> out_path])]

\* Lines 411-421: the placement file is written unless it exists.
save_team(w, f, team_text) ==
    LET out_path == PathJoin(w.loop.event_subdirs[f.key], f.base_filename \o ".txt")
    IN IF f.base_filename = "" THEN [w EXCEPT !.error = "IndexError"]
       ELSE IF ~f.numeric THEN Skip(w, "non_numeric")
       ELSE IF path_exists(w.files, out_path)
       THEN [w EXCEPT !.loop.skipped_existing = @ + 1,
                      !.log = Append(@, [outcome |-> "existing", path |-> out_path])]
       ELSE [w EXCEPT !.files = write_file(w.files, out_path, team_text),
                      !.loop.saved = @ + 1,
                      !.log = Append(@, [outcome |-> "saved", path |-> out_path])]

\* Lines 393-421: the row's team text is in the ledger; the event and the
\* placement are checked, then the file is placed.
place_team(w, f, team_text) ==
    IF ~f.event_allowed THEN Skip(w, "event")
    ELSE IF f.event_division THEN Skip(w, "event")
    ELSE IF f.event_joined THEN Skip(w, "event")
    ELSE IF f.placement_division THEN Skip(w, "placement")
    ELSE save_team(make_event_subdir(w, f), f, team_text)

\* Lines 382-392: the validator and the scorer are asked as the code asks
\* them, and their answers kept; an accepted text joins the ledger.
dedup_team(w, f, env, team_text) ==
    LET seen == w.loop.seen_teams
        parsed == parse_showdown_team(w.parse_memo, env.parse_ok, team_text)
        asked == [w EXCEPT !.parse_memo =
                     [t \in DOMAIN w.parse_memo \cup {team_text} |->
                         IF t = team_text THEN parsed ELSE w.parse_memo[t]]]
        pairs == {q \in scored_pairs(w.score_memo, env.score, team_text, seen) : q[1] # q[2]}
        scored == [asked EXCEPT !.score_memo =
                      [q \in DOMAIN w.score_memo \cup pairs |->
                          calc_team_similarity_score(w.score_memo, env.score, q[1], q[2])]]
    IN IF ~parsed THEN Skip(asked, "parse")
       ELSE IF is_duplicate(w.score_memo, env.score, team_text, seen)
       THEN Skip([scored EXCEPT !.loop.skipped_duplicates = @ + 1], "duplicate")
       ELSE place_team([scored EXCEPT !.loop.seen_teams = Append(@, team_text)],
                       f, team_text)

\* A variant of filter_team that skips a banned team without counting it.
filter_team_uncounted(w, f, env, team_text) ==
    IF f.banned THEN Skip(w, "banned")
    ELSE dedup_team(w, f, env, team_text)

\* Lines 379-381: the banned-mechanic check of a fetched team text.
filter_team(w, f, env, team_text) ==
    IF f.banned THEN Skip([w EXCEPT !.loop.skipped_banned = @ + 1], "banned")
    ELSE dedup_team(w, f, env, team_text)

\* A variant of process_row that does not look at the EVs flag.
process_row_ignoring_evs(w, f, env) ==
    LET got == fetch_pokepaste_raw(env.transport_ok, f.response)
        requested == [w EXCEPT !.requests =
                         Append(@, [target |-> f.paste_id, ok |-> env.transport_ok])]
    IN IF f.short THEN Skip(w, "short")
       ELSE IF f.category # "in person event" THEN Skip(w, "category")
       ELSE IF ~f.is_paste_url THEN Skip(w, "url")
       ELSE IF ~got.ok THEN [requested EXCEPT !.error = "HTTPError"]
       ELSE filter_team(requested, f, env, got.text)

\* Lines 366-378: the admission of a row and the fetch of its paste.  f is
\* row_facts of the row; env holds what the world answers: whether the
\* transport works, and the validator's and the scorer's answers to what
\* they were not asked before.
process_row(w, f, env) ==
    LET got == fetch_pokepaste_raw(env.transport_ok, f.response)
        requested == [w EXCEPT !.requests =
                         Append(@, [target |-> f.paste_id, ok |-> env.transport_ok])]
    IN IF f.short THEN Skip(w, "short")
       ELSE IF f.category # "in person event" THEN Skip(w, "category")
       ELSE IF f.evs # "yes" THEN Skip(w, "evs")
       ELSE IF ~f.is_paste_url THEN Skip(w, "url")
       ELSE IF ~got.ok THEN [requested EXCEPT !.error = "HTTPError"]
       ELSE filter_team(requested, f, env, got.text)

(***************************************************************************)
(* The headers and the rows the sheets are drawn from                      *)
(***************************************************************************)

HeaderDated ==
    <<"Team ID", "Category", "EVs", "Pokepaste", "Date", "Tournament / Event", "Rank">>

HeaderUndated ==
    <<" Team ID", "Category", "EVs", "Pokepaste", "When", "Tournament / Event", "Rank">>

HeaderNoRank ==
    <<"Team ID", "Category", "EVs", "Pokepaste", "Date", "Tournament / Event", "Placement">>

\* Two teams at the same event and placement, under two spellings of the
\* event; the same team as the first under another paste; a team at an event
\* of no recognised tier.
RowChampion ==
    <<"1", "In Person Event", "Yes", "https://pokepast.es/aaa", "15 Jan 2024",
      "Orlando Regional Championships", "Champion">>

RowWinner ==
    <<"2", " in person event ", "YES", "https://pokepast.es/ccc/", "",
      "2024 Orlando Regionals", " Winner">>

RowSameTeam ==
    <<"3", "In Person Event", "Yes", "https://pokepast.es/aab", "Aug 2024",
      "Worlds", "Runner-Up">>

RowLocal ==
    <<"4", "In Person Event", "Yes", "https://pokepast.es/ccc", "3 Sept 2024",
      "Local Cup", "1st">>

\* Rows the admission of lines 366-377 turns away.
RowOnline ==
    <<"5", "Online Event", "Yes", "https://pokepast.es/aaa", "15 Jan 2024",
      "Orlando Regional Championships", "Champion">>

RowNoEVs ==
    <<"6", "In Person Event", "No", "https://pokepast.es/aaa", "15 Jan 2024",
      "Orlando Regional Championships", "Champion">>

RowShort == <<"7", "In Person Event", "Yes", "https://pokepast.es/aaa">>

RowNoPaste ==
    <<"8", "In Person Event", "Yes", "", "15 Jan 2024", "Orlando Regional Championships",
      "Champion">>

\* Rows the content policy turns away, and placements of the other kinds.
RowBanned ==
    <<"9", "In Person Event", "Yes", "https://pokepast.es/bbb", "15 Jan 2024",
      "Orlando Regional Championships", "Champion">>

RowSeniors ==
    <<"10", "In Person Event", "Yes", "https://pokepast.es/eee", "15 Jan 2024",
      "Orlando Regional Championships Seniors", "Champion">>

RowJuniorsPlacement ==
    <<"11", "In Person Event", "Yes", "https://pokepast.es/ccc", "15 Jan 2024",
      "Orlando Regional Championships", "1st juniors">>

RowTop4 ==
    <<"12", "In Person Event", "Yes", "https://pokepast.es/eee", "15 Jan 2024",
      "Orlando Regional Championships", "Top 4">>

RowNoPlacement ==
    <<"13", "In Person Event", "Yes", "https://pokepast.es/ccc", "15 Jan 2024",
      "Orlando Regional Championships", " ">>

RowAccented ==
    <<"14", "In Person Event", "Yes", "https://pokepast.es/ccc", "15 Jan 2024",
      "Orlando Regional Championships", "Champión">>

AllRows ==
    {RowChampion, RowWinner, RowSameTeam, RowLocal, RowOnline, RowNoEVs, RowShort,
     RowNoPaste, RowBanned, RowSeniors, RowJuniorsPlacement, RowTop4, RowNoPlacement,
     RowAccented}

PlacingRows == {RowChampion, RowWinner, RowSameTeam}

AdmissionRows == {RowWinner, RowOnline, RowNoEVs, RowShort, RowNoPaste}

PolicyRows == {RowBanned, RowSeniors, RowLocal, RowJuniorsPlacement}

PlacementRows == {RowChampion, RowTop4, RowNoPlacement, RowAccented}

HeaderRows == {RowChampion, RowWinner}

\* row_facts of every row under every header layout, as an explicit table
\* (@@ turns the function expression into its enumerated value).
RowFacts ==
    [p \in {column_indices(HeaderDated), column_indices(HeaderUndated)} \X AllRows |->
        row_facts(p[1], p[2])] @@ <<>>

(***************************************************************************)
(* The data source of a run and the state of the process                   *)
(***************************************************************************)

\* How many runs of scrape_regulation a behaviour holds.
MaxRuns == 2

\* How many data rows the sheets of the source hold together.
MaxRows == 3

VARIABLES
    captions,       \* the tab captions of the spreadsheet, as re.findall lists them
    csv,            \* sheet name -> the rows the CSV export of that sheet holds
    files,          \* the files on disk: path -> content
    dirs,           \* the directories on disk
    parse_memo,     \* what the validator has answered: text -> parsed
    score_memo,     \* what the scorer has answered: <<text, prev>> -> score
    run,            \* the runs of scrape_regulation started so far
    pc,             \* "idle", "sheet" (line 351), "row" (line 365), "done", "aborted"
    error,          \* the exception that ended the run, "" when none
    sheet_names,    \* line 344
    sheet_i,        \* the position of the loop of line 351 in sheet_names
    rows,           \* line 352
    row_i,          \* the position of the loop of line 365 in rows
    cols,           \* lines 359-364
    loop,           \* seen_teams, the four counters and event_subdirs (lines 345-350)
    requests,       \* the fetches of this run: what was asked and whether it got through
    log,            \* per row this run has processed: how it ended and at which path
    stdout,         \* what this run has printed: <<>> or the four counts
    start_files,    \* the files on disk when this run started
    prev            \* the run before this one: how it ended and what it printed

vars ==
    <<captions, csv, files, dirs, parse_memo, score_memo, run, pc, error, sheet_names,
      sheet_i, rows, row_i, cols, loop, requests, log, stdout, start_files, prev>>

Range(f) == {f[x] : x \in DOMAIN f}

EmptyMap == [x \in {} |-> x]

\* Lines 345-350
InitialLoop ==
    [seen_teams |-> <<>>, saved |-> 0, skipped_duplicates |-> 0, skipped_banned |-> 0,
     skipped_existing |-> 0, event_subdirs |-> EmptyMap]

NoCols == [category |-> 0, evs |-> 0, pokepaste |-> 0, event |-> 0, rank |-> 0, date |-> 0]

NoRun == [status |-> "none", error |-> "", stdout |-> <<>>, start_files |-> EmptyMap,
          log |-> <<>>]

World ==
    [files |-> files, dirs |-> dirs, loop |-> loop, requests |-> requests, log |-> log,
     parse_memo |-> parse_memo, score_memo |-> score_memo, error |-> error]

Preamble == << <<>>, <<"VGCPastes Team Repository", "Pokepaste">> >>

\* The rows of a sheet of the given kind that holds the data rows data.
SheetOf(kind, data) ==
    IF kind = "dated" THEN Preamble \o <<HeaderDated>> \o data
    ELSE IF kind = "undated" THEN <<HeaderUndated>> \o data
    ELSE IF kind = "norank" THEN <<HeaderNoRank>> \o data
    ELSE Preamble \o data

\* The caption lists the spreadsheet may show.
CaptionLists ==
    { <<"Info", "Reg G Featured Teams", "Reg H Featured Teams",
        "Regulation g FEATURED (Worlds)", "Reg G Featured Teams",
        "Reg G Presentable Featured">>,
      <<"Info", "Reg H Featured Teams">> }

SheetNames ==
    UNION {Range(featured_team_sheets_for_regulation(unique_names(c), Regulation)) :
              c \in CaptionLists}

RowSeqs(pool, n) == UNION {[1..k -> pool] : k \in 0..n}

\* The files a directory may hold before the first run: none, or a file an
\* earlier scrape of another state of the source left.
InitialFiles ==
    {EmptyMap, [q \in {PathJoin(PathJoin(reg_dir, "orlando_2024"), "1st.txt")} |-> "Stale\n"]}

\* The parent directories of the files, and reg_dir's own.
DirsOf(fs) ==
    {Slice(q, 1, Max({i \in 1..Len(q) : Char(q, i) = "/"}) - 1) : q \in DOMAIN fs}

\* The initial states whose sheets are of the kinds given and hold rows of pool.
InitWith(kinds, pool) ==
    /\ captions \in CaptionLists
    /\ \E shape \in [SheetNames -> kinds \X RowSeqs(pool, MaxRows)] :
          LET selected == Range(featured_team_sheets_for_regulation(
                                    unique_names(captions), Regulation))
              total == LET f[S \in SUBSET SheetNames] ==
                               IF S = {} THEN 0
                               ELSE LET n == CHOOSE n \in S : TRUE
                                    IN Len(shape[n][2]) + f[S \ {n}]
                       IN f[SheetNames]
          IN /\ total <= MaxRows
             /\ \A n \in SheetNames \ selected : shape[n] = <<"dated", <<>> >>
             /\ \A n \in SheetNames :
                   shape[n][1] \in {"norank", "noheader"} => shape[n][2] = <<>>
             /\ csv = [n \in SheetNames |-> SheetOf(shape[n][1], shape[n][2])]
    /\ files \in InitialFiles
    /\ dirs = DirsOf(files)
    /\ parse_memo = EmptyMap
    /\ score_memo = EmptyMap
    /\ run = 0
    /\ pc = "idle"
    /\ error = ""
    /\ sheet_names = <<>>
    /\ sheet_i = 0
    /\ rows = <<>>
    /\ row_i = 0
    /\ cols = NoCols
    /\ loop = InitialLoop
    /\ requests = <<>>
    /\ log = <<>>
    /\ stdout = <<>>
    /\ start_files = files
    /\ prev = NoRun

(***************************************************************************)
(* scrape_regulation as a state machine                                    *)
(***************************************************************************)

\* Lines 340-350: a run starts (the first, or a rerun after the run before
\* ended); reg_dir is created and the sheet names are fetched and filtered.
StartRun ==
    /\ pc \in {"idle", "done", "aborted"}
    /\ run < MaxRuns
    /\ run' = run + 1
    /\ prev' = [status |-> pc, error |-> error, stdout |-> stdout,
                start_files |-> start_files, log |-> log]
    /\ start_files' = files
    /\ dirs' = dirs \cup {"data", "data/teams", reg_dir}
    /\ loop' = InitialLoop
    /\ log' = <<>>
    /\ stdout' = <<>>
    /\ rows' = <<>>
    /\ row_i' = 0
    /\ cols' = NoCols
    /\ \E transport_ok \in BOOLEAN :
          /\ requests' = <<[target |-> "htmlview", ok |-> transport_ok]>>
          /\ IF transport_ok
             THEN /\ sheet_names' = featured_team_sheets_for_regulation(
                                        unique_names(captions), Regulation)
                  /\ sheet_i' = 1
                  /\ pc' = "sheet"
                  /\ error' = ""
             ELSE /\ sheet_names' = <<>>
                  /\ sheet_i' = 0
                  /\ pc' = "aborted"
                  /\ error' = "HTTPError"
    /\ UNCHANGED <<captions, csv, files, parse_memo, score_memo>>

\* Lines 351-365: the next sheet is fetched and its header located.
FetchSheet ==
    /\ pc = "sheet"
    /\ sheet_i <= Len(sheet_names)
    /\ \E transport_ok \in BOOLEAN :
          LET fetched == csv[sheet_names[sheet_i]]
              at == header_row_idx(fetched)
              found == column_indices(fetched[at])
              failure == IF ~transport_ok THEN "HTTPError"
                         ELSE IF at = 0 THEN "StopIteration"
                         ELSE IF \E c \in RequiredColumns : found[c] = 0 THEN "ValueError"
                         ELSE ""
          IN /\ requests' = Append(requests, [target |-> sheet_names[sheet_i],
                                                ok |-> transport_ok])
             /\ IF failure # ""
                THEN /\ pc' = "aborted"
                     /\ error' = failure
                     /\ UNCHANGED <<sheet_i, rows, row_i, cols>>
                ELSE IF at < Len(fetched)
                THEN /\ pc' = "row"
                     /\ rows' = fetched
                     /\ row_i' = at + 1
                     /\ cols' = found
                     /\ UNCHANGED <<sheet_i, error>>
                ELSE /\ sheet_i' = sheet_i + 1
                     /\ UNCHANGED <<pc, rows, row_i, cols, error>>
    /\ UNCHANGED <<captions, csv, files, dirs, parse_memo, score_memo, run, sheet_names,
                   loop, log, stdout, start_files, prev>>

\* Lines 365-421: one row of the current sheet.
ProcessRow ==
    /\ pc = "row"
    /\ \E transport_ok \in BOOLEAN, parse_ok \in BOOLEAN,
          score \in [Range(loop.seen_teams) -> Scores] :
          \E w \in {process_row(World, RowFacts[<<cols, rows[row_i]>>],
                                 [transport_ok |-> transport_ok, parse_ok |-> parse_ok,
                                  score |-> score])} :
             /\ files' = w.files
             /\ dirs' = w.dirs
             /\ loop' = w.loop
             /\ requests' = w.requests
             /\ log' = w.log
             /\ parse_memo' = w.parse_memo
             /\ score_memo' = w.score_memo
             /\ error' = w.error
             /\ IF w.error # ""
                THEN pc' = "aborted" /\ UNCHANGED <<sheet_i, rows, row_i, cols>>
                ELSE IF row_i < Len(rows)
                THEN row_i' = row_i + 1 /\ UNCHANGED <<pc, sheet_i, rows, cols>>
                ELSE /\ pc' = "sheet"
                     /\ sheet_i' = sheet_i + 1
                     /\ rows' = <<>>
                     /\ row_i' = 0
                     /\ cols' = NoCols
    /\ UNCHANGED <<captions, csv, run, sheet_names, stdout, start_files, prev>>

\* Lines 422-425: every sheet is done; the four counts are printed.
PrintSummary ==
    /\ pc = "sheet"
    /\ sheet_i > Len(sheet_names)
    /\ stdout' = <<loop.saved, loop.skipped_existing, loop.skipped_banned,
                   loop.skipped_duplicates>>
    /\ pc' = "done"
    /\ UNCHANGED <<captions, csv, files, dirs, parse_memo, score_memo, run, error,
                   sheet_names, sheet_i, rows, row_i, cols, loop, requests, log,
                   start_files, prev>>

Next == StartRun \/ FetchSheet \/ ProcessRow \/ PrintSummary

(***************************************************************************)
(* The specifications                                                      *)
(***************************************************************************)

Init == InitWith({"dated"}, PlacingRows)

Spec == Init /\ [][Next]_vars

\* The same program over sheets of rows the admission turns away, ...
InitAdmission == InitWith({"dated"}, AdmissionRows)

SpecAdmission == InitAdmission /\ [][Next]_vars

\* ... of rows the content policy turns away, ...
InitPolicy == InitWith({"dated"}, PolicyRows)

SpecPolicy == InitPolicy /\ [][Next]_vars

\* ... of placements of every kind, ...
InitPlacement == InitWith({"dated"}, PlacementRows)

SpecPlacement == InitPlacement /\ [][Next]_vars

\* ... and over sheets of every header layout.
InitHeaders == InitWith({"dated", "undated", "norank", "noheader"}, HeaderRows)

SpecHeaders == InitHeaders /\ [][Next]_vars

(***************************************************************************)
(* What the properties read                                                *)
(***************************************************************************)

\* The row ProcessRow takes next (pc = "row") and what row_facts says of it.
CurrentRow == rows[row_i]

CurrentFacts == RowFacts[<<cols, CurrentRow>>]

\* The path lines 409-412 resolve for a row.
TargetPath(f) == PathJoin(PathJoin(reg_dir, f.dir_name), f.base_filename \o ".txt")

\* A step of ProcessRow that ended the row with an entry in the log.
RowLogged == pc = "row" /\ Len(log') = Len(log) + 1

Outcomes(l) == {l[k].outcome : k \in 1..Len(l)}

PathsOf(l, outcome) == {l[k].path : k \in {j \in 1..Len(l) : l[j].outcome = outcome}}

Count(l, outcomes) == Cardinality({k \in 1..Len(l) : l[k].outcome \in outcomes})

(***************************************************************************)
(* C1                                                                      *)
(***************************************************************************)

\* C1: in a run that follows a completed run over the same source, the files
\* on disk and their contents stay what they were when the run started, i.e.
\* what the first run left: no file is created and none changes.
C1_RerunLeavesFilesIdentical ==
    prev.status = "done" => files = start_files

\* A second run has completed after a first that saved two files.
C1_Witness ==
    /\ pc = "done"
    /\ prev.status = "done"
    /\ prev.stdout[1] = 2
    /\ stdout[2] >= 2

(***************************************************************************)
(* C2                                                                      *)
(***************************************************************************)

\* C2 as stated: after two completed runs, the first from an empty
\* directory, the second run's "already existing" count equals the first
\* run's "saved" count.
C2_ExistingEqualsSaved ==
    (pc = "done" /\ prev.status = "done" /\ prev.start_files = EmptyMap)
        => stdout[2] = prev.stdout[1]

\* C2 amended: after two completed runs, the first from an empty directory,
\* the second run saves nothing and its "already existing" count equals the
\* first run's "saved" count plus the first run's "already existing" count
\* (the rows of the first run that found their file written by an earlier
\* row).
C2_ExistingEqualsSavedPlusExisting ==
    (pc = "done" /\ prev.status = "done" /\ prev.start_files = EmptyMap)
        => /\ stdout[1] = 0
           /\ stdout[2] = prev.stdout[1] + prev.stdout[2]

\* Two runs from an empty directory, the first of which met a file an
\* earlier row of it had written.
C2_Witness ==
    /\ pc = "done"
    /\ prev.status = "done"
    /\ prev.start_files = EmptyMap
    /\ prev.stdout[1] = 1
    /\ prev.stdout[2] = 1
    /\ stdout[2] = 2

(***************************************************************************)
(* C3                                                                      *)
(***************************************************************************)

\* C3: no step changes or removes a file that exists; a row that reaches the
\* file step with its target path on disk is counted "already existing" and
\* leaves the files as they are; a row is counted "saved" only when its
\* target path was not on disk, and then that path alone is added, holding
\* the row's team text; the two counters move on no other row.
C3_NoOverwrite ==
    [][/\ \A q \in DOMAIN files : q \in DOMAIN files' /\ files'[q] = files[q]
       /\ RowLogged =>
             LET e == Last(log')
                 reached == e.outcome \in {"existing", "saved"}
             IN /\ reached => e.path = TargetPath(CurrentFacts)
                /\ (reached /\ e.path \in DOMAIN files) =>
                      /\ e.outcome = "existing"
                      /\ files' = files
                      /\ loop'.skipped_existing = loop.skipped_existing + 1
                      /\ loop'.saved = loop.saved
                /\ (reached /\ e.path \notin DOMAIN files) =>
                      /\ e.outcome = "saved"
                      /\ DOMAIN files' = DOMAIN files \cup {e.path}
                      /\ files'[e.path] = CurrentFacts.response.text
                      /\ loop'.saved = loop.saved + 1
                      /\ loop'.skipped_existing = loop.skipped_existing
                /\ ~reached =>
                      /\ files' = files
                      /\ loop'.saved = loop.saved
                      /\ loop'.skipped_existing = loop.skipped_existing
      ]_vars

\* A row found its file written by an earlier row of the same run, and
\* another found the file an earlier run had left.
C3_Witness ==
    /\ run = 2
    /\ Len(log) = 2
    /\ log[1].outcome = "existing"
    /\ log[2].outcome = "existing"
    /\ prev.start_files = EmptyMap
    /\ Count(prev.log, {"saved"}) = 1
    /\ Count(prev.log, {"existing"}) = 1

(***************************************************************************)
(* C4                                                                      *)
(***************************************************************************)

PolicyOutcomes == {"banned", "parse", "event", "placement"}

Counted(l) == l.saved + l.skipped_existing + l.skipped_banned + l.skipped_duplicates

\* C4 as stated: a row rejected for a content-policy reason (banned
\* mechanic, parse failure, disallowed event, junior/senior placement) does
\* not abort the run and increments one of the four summary counters.
C4_PolicyRejectionsCounted ==
    [][(RowLogged /\ Last(log').outcome \in PolicyOutcomes) =>
          /\ pc' # "aborted"
          /\ error' = ""
          /\ Counted(loop') = Counted(loop) + 1
      ]_vars

\* C4 amended: a row rejected for a content-policy reason does not abort
\* the run; a banned mechanic increments the banned counter and no other,
\* and the summary reports it; a parse failure, a disallowed event and a
\* junior/senior placement leave the four counters as they are.
C4_OnlyBannedCounted ==
    /\ [](pc = "done" =>
            /\ stdout = <<loop.saved, loop.skipped_existing, loop.skipped_banned,
                          loop.skipped_duplicates>>
            /\ stdout[3] = Count(log, {"banned"}))
    /\ [][(RowLogged /\ Last(log').outcome \in PolicyOutcomes) =>
             /\ pc' # "aborted"
             /\ error' = ""
             /\ loop'.saved = loop.saved
             /\ loop'.skipped_existing = loop.skipped_existing
             /\ loop'.skipped_duplicates = loop.skipped_duplicates
             /\ loop'.skipped_banned =
                   IF Last(log').outcome = "banned" THEN loop.skipped_banned + 1
                   ELSE loop.skipped_banned
       ]_vars

\* A run has ended that rejected one row for a banned mechanic and two rows
\* for other content-policy reasons, one of them a parse failure.
C4_Witness ==
    /\ pc = "done"
    /\ Len(log) = 3
    /\ Count(log, {"banned"}) = 1
    /\ Count(log, {"parse"}) = 1
    /\ Count(log, {"event", "placement"}) = 1
    /\ stdout = <<0, 0, 1, 0>>

(***************************************************************************)
(* C5                                                                      *)
(***************************************************************************)

\* No row of the sheet passes the scan of line 353, or the row that passes
\* lacks one of the names lines 359-363 look up.
BadHeader(fetched) ==
    LET at == header_row_idx(fetched)
    IN \/ at = 0
       \/ \E c \in RequiredColumns : column_indices(fetched[at])[c] = 0

\* C5 as stated: a sheet that was fetched and has no header row, or whose
\* header row lacks a required column name, does not abort the run.
C5_MissingHeaderIsSkipped ==
    ~ /\ pc = "aborted"
      /\ sheet_i \in 1..Len(sheet_names)
      /\ Last(requests) = [target |-> sheet_names[sheet_i], ok |-> TRUE]
      /\ BadHeader(csv[sheet_names[sheet_i]])

(***************************************************************************)
(* C8                                                                      *)
(***************************************************************************)

\* The cells of the row under "EVs" and "Category", trimmed and compared
\* without case, are not "yes" and "in person event".
NotInPersonWithEVs(row) ==
    /\ Len(row) >= Max({cols.evs, cols.category})
    /\ \/ Lower(Strip(row[cols.evs])) # "yes"
       \/ Lower(Strip(row[cols.category])) # "in person event"

\* C8: the step that processes a row whose EVs flag is not "yes" or whose
\* category is not "in person event" writes and creates no file, fetches no
\* paste, leaves the ledger and the four counters as they are and does not
\* end the run.
C8_UnadmittedRowDoesNothing ==
    [][(pc = "row" /\ NotInPersonWithEVs(CurrentRow)) =>
          /\ files' = files
          /\ dirs' = dirs
          /\ requests' = requests
          /\ loop' = loop
          /\ pc' # "aborted"
      ]_vars

\* A run has ended that saved the team of a row written " in person event "
\* and "YES", and passed over a row without EVs and a row of an online event.
C8_Witness ==
    /\ pc = "done"
    /\ Len(log) = 3
    /\ Outcomes(log) = {"saved", "evs", "category"}
    /\ Len(requests) <= 4

(***************************************************************************)
(* C9                                                                      *)
(***************************************************************************)

\* C9: a file is saved only at <token>.txt in the event's directory, where
\* token is the row's placement_to_filename and starts with a digit; the
\* step that processes a row whose token does not start with a digit leaves
\* the files, "saved" and "already existing" as they are; no run ends with
\* the first-character test failing on an empty token.
C9_OnlyNumericPlacementsSaved ==
    /\ [](error # "IndexError")
    /\ [][/\ (RowLogged /\ Last(log').outcome = "saved") =>
                 /\ Last(log').path = TargetPath(CurrentFacts)
                 /\ DOMAIN files' = DOMAIN files \cup {Last(log').path}
                 /\ CurrentFacts.base_filename # ""
                 /\ IsDigit(Char(CurrentFacts.base_filename, 1))
          /\ (pc = "row" /\ ~IsDigit(Char(CurrentFacts.base_filename, 1))) =>
                 /\ files' = files
                 /\ loop'.saved = loop.saved
                 /\ loop'.skipped_existing = loop.skipped_existing
                 /\ error' \in {"", "HTTPError"}
       ]_vars

\* A run has ended that saved a champion's team and passed over a "Top 4"
\* and an empty placement.
C9_Witness ==
    /\ pc = "done"
    /\ Len(log) = 3
    /\ Count(log, {"saved"}) = 1
    /\ Count(log, {"non_numeric"}) = 2
    /\ stdout[1] = 1
    /\ Cardinality(DOMAIN files) = 1
    /\ \A r \in {RowTop4, RowNoPlacement} : \E n \in DOMAIN csv : r \in Range(csv[n])

(***************************************************************************)
(* C6                                                                      *)
(***************************************************************************)

\* C6: a row whose text passed the banned-mechanic and the parse checks is
\* counted "duplicate" and leaves the ledger as it is iff its text scores the
\* maximum against some text of the ledger, and otherwise its text is
\* appended to the ledger; no other step appends to the ledger: it is empty
\* when a run starts and the fetch of a sheet leaves it alone; and in every
\* state no text of the ledger scores the maximum against an earlier one.
C6_DuplicateIffExactMatch ==
    /\ [](\A j \in 1..Len(loop.seen_teams) : \A i \in 1..(j - 1) :
            LET a == loop.seen_teams[j]
                b == loop.seen_teams[i]
            IN /\ a # b
               /\ <<a, b>> \in DOMAIN score_memo
               /\ score_memo[<<a, b>>] # MaxScore)
    /\ [][LET seen == loop.seen_teams
              text == CurrentFacts.response.text
              answer(a, b) == IF a = b THEN MaxScore
                              ELSE IF <<a, b>> \in DOMAIN score_memo'
                              THEN score_memo'[<<a, b>>]
                              ELSE 0
              exact == \E k \in 1..Len(seen) : answer(text, seen[k]) = MaxScore
              passed == /\ RowLogged
                        /\ Last(log').outcome \notin
                               {"short", "category", "evs", "url", "banned", "parse"}
          IN /\ passed =>
                   /\ ~CurrentFacts.banned
                   /\ parse_memo'[text]
                   /\ IF exact
                      THEN /\ Last(log').outcome = "duplicate"
                           /\ loop'.skipped_duplicates = loop.skipped_duplicates + 1
                           /\ loop'.seen_teams = seen
                      ELSE /\ Last(log').outcome # "duplicate"
                           /\ loop'.skipped_duplicates = loop.skipped_duplicates
                           /\ loop'.seen_teams = Append(seen, text)
             /\ (pc = "row" /\ ~passed) =>
                   /\ loop'.seen_teams = seen
                   /\ loop'.skipped_duplicates = loop.skipped_duplicates
             /\ (pc # "row" /\ run' = run) => loop'.seen_teams = seen
             /\ run' # run => loop'.seen_teams = <<>>
       ]_vars

\* The one row of the second sheet of a run was counted "duplicate" against
\* a ledger of two texts that the rows of the first sheet had filled.
C6_Witness ==
    /\ Len(sheet_names) = 2
    /\ sheet_i = 3
    /\ Len(csv[sheet_names[2]]) = Len(Preamble) + 2
    /\ Len(loop.seen_teams) = 2
    /\ Len(log) = 3
    /\ log[3].outcome = "duplicate"
    /\ loop.skipped_duplicates = 1

(***************************************************************************)
(* C7                                                                      *)
(***************************************************************************)

\* C7: a fetch (of the sheet list, of a sheet or of a paste) that does not get
\* through is the last fetch of its run: the run is aborted with the HTTP
\* error and has printed nothing; the step of the failed fetch and every
\* step of the aborted run leave the files as they are, and the aborted run
\* logs no further row.
C7_TransportFailureIsFatal ==
    /\ [](\A k \in 1..Len(requests) :
            ~requests[k].ok =>
                /\ k = Len(requests)
                /\ pc = "aborted"
                /\ error = "HTTPError"
                /\ stdout = <<>>)
    /\ [][/\ (requests' # requests /\ ~Last(requests').ok) =>
                 (files' = files /\ (run' = run => log' = log /\ loop' = loop))
          /\ (pc = "aborted" /\ run' = run) =>
                 (files' = files /\ log' = log /\ requests' = requests /\ stdout' = stdout)
       ]_vars

\* The fetch of a paste failed in a run that had saved a file.
C7_Witness ==
    /\ pc = "aborted"
    /\ loop.saved = 1
    /\ Len(requests) = 4
    /\ ~requests[4].ok
    /\ requests[4].target = "ccc"
    /\ DOMAIN files # {}

(***************************************************************************)
(* C10                                                                     *)
(***************************************************************************)

\* The rows of a sheet from position i on, as one uninterrupted pass.
RECURSIVE run_rows(_, _, _, _)
run_rows(w, found, fetched, i) ==
    IF i > Len(fetched) \/ w.error # "" THEN w
    ELSE run_rows(process_row(w, RowFacts[<<found, fetched[i]>>],
                              [transport_ok |-> TRUE, parse_ok |-> TRUE,
                               score |-> [t \in Range(w.loop.seen_teams) |-> MaxScore]]),
                  found, fetched, i + 1)

\* The sheets from position k on, as one uninterrupted pass.
RECURSIVE run_sheets(_, _, _)
run_sheets(w, names, k) ==
    IF k > Len(names) \/ w.error # "" THEN w
    ELSE LET fetched == csv[names[k]]
             at == header_row_idx(fetched)
             found == column_indices(fetched[at])
         IN IF at = 0 THEN [w EXCEPT !.error = "StopIteration"]
            ELSE IF \E c \in RequiredColumns : found[c] = 0
            THEN [w EXCEPT !.error = "ValueError"]
            ELSE run_sheets(run_rows(w, found, fetched, at + 1), names, k + 1)

\* What one run without a failed fetch leaves when it starts from the files
\* fs, the validator and the scorer answering what they have answered.
uninterrupted_run(fs) ==
    run_sheets([files |-> fs, dirs |-> DirsOf(fs), loop |-> InitialLoop, requests |-> <<>>,
                log |-> <<>>, parse_memo |-> parse_memo, score_memo |-> score_memo,
                error |-> ""],
               featured_team_sheets_for_regulation(unique_names(captions), Regulation), 1)

\* C10: when a run that a failed fetch aborted is followed by a run that
\* completes, the files on disk are those one uninterrupted run from the
\* aborted run's initial directory leaves, with the same contents; every
\* file the aborted run saved is counted "already existing" by the rerun and
\* is not written by it.
C10_ResumeEqualsUninterrupted ==
    (pc = "done" /\ prev.status = "aborted" /\ prev.error = "HTTPError") =>
        /\ files = uninterrupted_run(prev.start_files).files
        /\ PathsOf(prev.log, "saved") \subseteq PathsOf(log, "existing")
        /\ PathsOf(prev.log, "saved") \cap PathsOf(log, "saved") = {}
        /\ stdout[2] >= Cardinality(PathsOf(prev.log, "saved"))

\* A run saved a file and was aborted at a later row; the rerun completed,
\* met that file and saved another.
C10_Witness ==
    /\ pc = "done"
    /\ prev.status = "aborted"
    /\ Count(prev.log, {"saved"}) = 1
    /\ stdout[1] = 1
    /\ stdout[2] = 1

====
